---- MODULE Spec2Model ----
(***************************************************************************)
(* State-machine model of the git-heatmap plugin (src/main.ts): one plugin *)
(* object holding the grid cache, the selection and the keydown handler,   *)
(* any number of code blocks rendered through processHeatmap, and the      *)
(* asynchronous git queries that complete in any order.                    *)
(***************************************************************************)
EXTENDS Integers, Sequences, FiniteSets, TLC

\* ---------------------------------------------------------------- bounds
MaxPasses     == 2   \* processHeatmap calls (code blocks rendered)
MaxDays       == 4   \* widest window rendered in Spec
MaxLists      == 2   \* commit-list elements alive at once
MaxHistory    == 2   \* days back that the repository's history is listed
MaxLayoutDays == 30  \* widest window laid out in LayoutSpec
MaxCount      == 60  \* largest commit count of a day in LevelSpec
MaxLines      == 4   \* longest log listing in AggregateSpec
MaxDetail     == 3   \* longest detail output in DetailSpec
MaxBlock      == 3   \* longest code block in ConfigSpec

\* ------------------------------------------------------ program constants
DEFAULT_DAYS == 365
LastRow      == 6

\* ------------------------------------------------------------- text model
\* A text is a sequence of one-character strings.
Digits == {"0", "1", "2", "3", "4", "5", "6", "7", "8", "9"}

DigitVal(c) ==
  CASE c = "0" -> 0 [] c = "1" -> 1 [] c = "2" -> 2 [] c = "3" -> 3
    [] c = "4" -> 4 [] c = "5" -> 5 [] c = "6" -> 6 [] c = "7" -> 7
    [] c = "8" -> 8 [] c = "9" -> 9

RECURSIVE TrimLeft(_)
TrimLeft(t) == IF t # <<>> /\ Head(t) = " " THEN TrimLeft(Tail(t)) ELSE t

RECURSIVE TrimRight(_)
TrimRight(t) ==
  IF t # <<>> /\ t[Len(t)] = " " THEN TrimRight(SubSeq(t, 1, Len(t) - 1)) ELSE t

\* String.prototype.trim
Trim(t) == TrimRight(TrimLeft(t))

LowerChar(c) ==
  CASE c = "D" -> "d" [] c = "A" -> "a" [] c = "Y" -> "y" [] c = "S" -> "s"
    [] OTHER -> c

\* String.prototype.toLowerCase
ToLowerCase(t) == [k \in 1..Len(t) |-> LowerChar(t[k])]

\* String.prototype.split(sep) for a one-character separator
RECURSIVE SplitFrom(_, _, _, _)
SplitFrom(t, sep, k, cur) ==
  IF k > Len(t) THEN <<cur>>
  ELSE IF t[k] = sep THEN <<cur>> \o SplitFrom(t, sep, k + 1, <<>>)
  ELSE SplitFrom(t, sep, k + 1, Append(cur, t[k]))

Split(t, sep) == SplitFrom(t, sep, 1, <<>>)

\* parseInt(text): leading white space, an optional sign, then the longest
\* run of decimal digits; NaN when there is no digit at that place.
RECURSIVE DigitRun(_, _, _, _)
DigitRun(t, k, acc, seen) ==
  IF k <= Len(t) /\ t[k] \in Digits
  THEN DigitRun(t, k + 1, 10 * acc + DigitVal(t[k]), TRUE)
  ELSE [nan |-> ~seen, val |-> acc]

ParseInt(text) ==
  LET t == TrimLeft(text)
      neg == t # <<>> /\ Head(t) = "-"
      body == IF t # <<>> /\ Head(t) \in {"-", "+"} THEN Tail(t) ELSE t
      r == DigitRun(body, 1, 0, FALSE)
  IN  [nan |-> r.nan, val |-> IF neg THEN 0 - r.val ELSE r.val]

\* ----------------------------------------------------------- layout engine
\* Math.ceil(n / 7)
CeilDiv7(n) == 0 - ((0 - n) \div 7)

\* startDate = today - displayDays + 1; startDate.getDay()
StartDayOfWeek(days, dow) == (dow - days + 1) % 7

TotalWeeks_Floor(days, s) == (days + s) \div 7
TotalWeeks(days, s) == CeilDiv7(days + s)

\* currentDate = startDate + i; currentDate.getDay()
Row(i, s) == (s + i) % 7

Col(i, s) == (i + s) \div 7

\* toISOString().split('T')[0] of the i-th day of the window: the date text
\* is the one-token text of the day number, today being "0", yesterday "-1"
DayText(n) == <<ToString(n)>>
DateStr(i, days) == DayText(i - (days - 1))

\* ------------------------------------------------------------------ state
VARIABLES
  settings,        \* GitHeatmapSettings: [defaultDays]
  todayDow,        \* new Date().getDay() during the run
  pc,              \* per processHeatmap call: "idle", "awaitLog", "rendered", "failed"
  displayDays,     \* per call: its displayDays while the call or its closures live
  scrollArea,      \* per call: the heatmap area of its wrapper
  infoArea,        \* per call: the detail panel of its wrapper
  gridRects,       \* this.gridRects: (row, col) -> rect element
  gridMeta,        \* this.gridMeta: (row, col) -> [dateStr, count]
  currentPos,      \* this.currentPos
  activeRect,      \* this.activeRect
  activeSelected,  \* the rect elements carrying class 'active-selected'
  keyHandler,      \* this.keyHandler: the call whose closure it is, 0 for null
  lastRender,      \* history: the call whose renderHeatmap ran last, 0 for none
  listeners,       \* keydown listeners attached to window, in order of attachment
  lists,           \* the commit-list elements, by slot
  fetches,         \* getCommitsForDate calls whose callback has not run
  loopDays,        \* LayoutSpec: displayDays of the loop being stepped
  loopI,           \* LayoutSpec: the loop counter i
  arg,             \* function specifications: the input drawn
  result,          \* function specifications: what the code computed from arg
  applied          \* function specifications: whether the code has run on arg

vars == <<settings, todayDow, pc, displayDays, scrollArea, infoArea, gridRects,
          gridMeta, currentPos, activeRect, activeSelected, keyHandler,
          listeners, lists, fetches, loopDays, loopI,
                 arg, result, applied, lastRender>>

Passes == 1..MaxPasses

NoRect == [pass |-> 0, row |-> 0, col |-> 0]
Rect(p, row, col) == [pass |-> p, row |-> row, col |-> col]

EmptyGrid == <<>>

\* a[k] = v on a sparse array
Store(a, k, v) == [x \in (DOMAIN a) \cup {k} |-> IF x = k THEN v ELSE a[x]]

\* The mutable state one handler reads and writes, as a record.
Cur ==
  [gridRects |-> gridRects, gridMeta |-> gridMeta, currentPos |-> currentPos,
   activeRect |-> activeRect, activeSelected |-> activeSelected,
   keyHandler |-> keyHandler, listeners |-> listeners,
   scrollArea |-> scrollArea, infoArea |-> infoArea,
   lists |-> lists, fetches |-> fetches, calls |-> 0, full |-> FALSE]

Becomes(st) ==
  /\ gridRects' = st.gridRects
  /\ gridMeta' = st.gridMeta
  /\ currentPos' = st.currentPos
  /\ activeRect' = st.activeRect
  /\ activeSelected' = st.activeSelected
  /\ keyHandler' = st.keyHandler
  /\ listeners' = st.listeners
  /\ scrollArea' = st.scrollArea
  /\ infoArea' = st.infoArea
  /\ lists' = st.lists
  /\ fetches' = st.fetches

\* ------------------------------------------------------------ git history
\* The repository the vault lives in: one commit on each of the two latest
\* days.  Texts are sequences of tokens; "|" stands for the separator.
Separator == "|"
TimeText == <<"1", "0", ":", "0", "0", ":", "0", "0">>

Repo ==
  { [hash |-> <<"a", "1", "b", "2", "c", "3", "d", "4">>, msg |-> <<"fix">>,
     author |-> <<"ann">>, day |-> 0],
    [hash |-> <<"e", "5", "f", "6", "a", "7", "b", "8">>, msg |-> <<"add">>,
     author |-> <<"bob">>, day |-> -1] }

IsoDate(c) == DayText(c.day) \o <<"T">> \o TimeText

\* %H<sep>%s<sep>%an<sep>%aI
DetailLine(c) ==
  c.hash \o <<Separator>> \o c.msg \o <<Separator>> \o c.author
         \o <<Separator>> \o IsoDate(c)

\* a line the parser has to drop: fewer than 4 fields
ShortLine(c) == c.hash \o <<Separator>> \o c.msg

\* stdout.split('\n') of the detail query for `date`: when git succeeds, the
\* day's commits (here after a line that is not a commit record), or nothing
\* if the day has none; when it fails, nothing or the output so far
DetailOutputs(date, err) ==
  {<<>>} \cup
  { IF err THEN <<DetailLine(c), <<>>>> ELSE <<ShortLine(c), DetailLine(c), <<>>>> :
    c \in {r \in Repo : DayText(r.day) = date} }

\* the lines `git log --since=<today - days> --format=%ad` prints: the date
\* of every commit of the window, newest first
RECURSIVE LogLinesFrom(_, _)
LogLinesFrom(n, days) ==
  IF n < 0 - days \/ n < 0 - MaxHistory THEN <<>>
  ELSE [k \in 1..Cardinality({c \in Repo : c.day = n}) |-> DayText(n)]
       \o LogLinesFrom(n - 1, days)

\* stdout.split('\n') of the daily-count query: the whole listing when git
\* succeeds, and whatever part of it git printed before it failed;
\* non-empty output ends in "\n"
LogOutputs(days, err) ==
  LET full == LogLinesFrom(0, days)
      lens == IF err THEN 0..Len(full) ELSE {Len(full)}
  IN  {IF n = 0 THEN <<>> ELSE SubSeq(full, 1, n) \o <<<<>>>> : n \in lens}

\* ------------------------------------------------------------- log reader
\* getGitLog: `if (err && !stdout) reject`
GitLogRejects_AnyError(err, stdout) == err
GitLogRejects(err, stdout) == err /\ stdout = <<>>

\* getCommitsForDate never rejects: every path of its callback resolves
DetailRejects(err, stdout) == FALSE

\* ------------------------------------------------------------- aggregator
\* parseGitLog: count the trimmed non-blank lines per text
RECURSIVE CountLines(_, _)
CountLines(lines, stats) ==
  IF lines = <<>> THEN stats
  ELSE LET cleanDate == Trim(Head(lines))
           old == IF cleanDate \in DOMAIN stats THEN stats[cleanDate] ELSE 0
       IN  CountLines(Tail(lines), Store(stats, cleanDate, old + 1))

ParseGitLog_KeepBlank(log) == CountLines(log, <<>>)

ParseGitLog(log) ==
  CountLines(SelectSeq(log, LAMBDA l : Trim(l) # <<>>), <<>>)

\* getCommitsForDate: the callback's parsing of stdout
RECURSIVE ParseDetails_Exactly4(_)
ParseDetails_Exactly4(lines) ==
  IF lines = <<>> THEN <<>>
  ELSE LET line == Head(lines)
           parts == Split(line, Separator)
           rest == ParseDetails_Exactly4(Tail(lines))
       IN  IF Trim(line) = <<>> THEN rest
           ELSE IF Len(parts) = 4
                THEN <<[hash |-> parts[1], message |-> parts[2],
                        author |-> parts[3], date |-> parts[4]]>> \o rest
                ELSE rest

RECURSIVE ParseDetails(_)
ParseDetails(lines) ==
  IF lines = <<>> THEN <<>>
  ELSE LET line == Head(lines)
           parts == Split(line, Separator)
           rest == ParseDetails(Tail(lines))
       IN  IF Trim(line) = <<>> THEN rest
           ELSE IF Len(parts) >= 4
                THEN <<[hash |-> parts[1], message |-> parts[2],
                        author |-> parts[3], date |-> parts[4]]>> \o rest
                ELSE rest

GetCommitsForDate(err, stdout) ==
  IF err \/ stdout = <<>> THEN <<>> ELSE ParseDetails(stdout)

\* String.prototype.substring(0, n)
Substring(t, n) == SubSeq(t, 1, IF Len(t) < n THEN Len(t) ELSE n)

\* one rendered commit entry: message, time of day, short hash
CommitItem(c) ==
  LET halves == Split(c.date, "T")
  IN  [msg |-> c.message,
       time |-> IF Len(halves) >= 2 THEN Substring(halves[2], 5) ELSE <<>>,
       hash |-> Substring(c.hash, 7)]

\* ---------------------------------------------------------- detail panel
FreshPanel ==
  [text |-> <<"Select a square">>, header |-> FALSE, date |-> <<>>,
   count |-> 0, list |-> 0]
NoPanel == [FreshPanel EXCEPT !.text = <<>>]

\* A commit-list element: the panel it was created in, its text and its
\* commit entries.  A slot of `lists` that holds no element is NoList.
NoList == [container |-> 0, text |-> <<>>, items |-> <<>>]

\* An element is live while its panel shows it or its query is pending; an
\* element that is neither can no longer be seen or written, and its slot
\* is given back.
Live(st, id) ==
  \/ st.lists[id].container # 0 /\ st.infoArea[st.lists[id].container].list = id
  \/ \E f \in st.fetches : f.list = id

Collect(st) ==
  [st EXCEPT !.lists = [id \in DOMAIN st.lists |->
                          IF Live(st, id) THEN st.lists[id] ELSE NoList]]

FreeSlots(st) == {id \in DOMAIN st.lists : st.lists[id] = NoList}

\* updateInfoArea up to its await: the container is emptied, the header is
\* written and, for count > 0, a new list element saying "Loading..." is
\* appended and the detail query for dateStr is started.
UpdateInfoArea_FetchAlways(st, p, dateStr, count) ==
  LET header == [text |-> <<>>, header |-> TRUE, date |-> dateStr,
                 count |-> count, list |-> 0]
      emptied == Collect([st EXCEPT !.infoArea[p] = header])
      free == FreeSlots(emptied)
      id == CHOOSE x \in free : \A y \in free : x <= y
  IN  IF free = {} THEN [emptied EXCEPT !.full = TRUE]
      ELSE [emptied EXCEPT
              !.infoArea[p].list = id,
              !.lists[id] = [container |-> p, text |-> <<"Loading...">>,
                             items |-> <<>>],
              !.fetches = @ \cup {[list |-> id, date |-> dateStr]}]

UpdateInfoArea(st, p, dateStr, count) ==
  LET header == [text |-> <<>>, header |-> TRUE, date |-> dateStr,
                 count |-> count, list |-> 0]
      emptied == Collect([st EXCEPT !.infoArea[p] = header])
      free == FreeSlots(emptied)
      id == CHOOSE x \in free : \A y \in free : x <= y
  IN  IF count = 0 THEN emptied
      ELSE IF free = {} THEN [emptied EXCEPT !.full = TRUE]
      ELSE [emptied EXCEPT
              !.infoArea[p].list = id,
              !.lists[id] = [container |-> p, text |-> <<"Loading...">>,
                             items |-> <<>>],
              !.fetches = @ \cup {[list |-> id, date |-> dateStr]}]

\* updateInfoArea after its await: the list element the call created is
\* emptied and filled, or gets the error text when the query rejected.
ResolveDetails_CurrentList(st, f, err, stdout) ==
  LET shown == st.infoArea[st.lists[f.list].container].list
      target == IF shown = 0 THEN f.list ELSE shown
      commits == GetCommitsForDate(err, stdout)
  IN  Collect([st EXCEPT
         !.lists[target] =
            [@ EXCEPT !.text = <<>>,
                      !.items = [k \in 1..Len(commits) |-> CommitItem(commits[k])]],
         !.fetches = @ \ {f}])

ResolveDetails(st, f, err, stdout) ==
  LET commits == GetCommitsForDate(err, stdout)
  IN  IF DetailRejects(err, stdout)
      THEN Collect([st EXCEPT
              !.lists[f.list] = [@ EXCEPT !.text = <<"Error loading details">>],
              !.fetches = @ \ {f}])
      ELSE Collect([st EXCEPT
              !.lists[f.list] =
                 [@ EXCEPT !.text = <<>>,
                           !.items = [k \in 1..Len(commits) |-> CommitItem(commits[k])]],
              !.fetches = @ \ {f}])

\* ---------------------------------------------------- selection controller
Populated(st, row, col) ==
  <<row, col>> \in DOMAIN st.gridRects /\ <<row, col>> \in DOMAIN st.gridMeta

\* selectCell of the render pass p (its closure holds p's infoContainer)
SelectCell_PosFirst(st, p, row, col) ==
  LET called == [st EXCEPT !.calls = @ + 1,
                           !.currentPos = [row |-> row, col |-> col]]
  IN  IF ~Populated(st, row, col) THEN called
      ELSE LET rect == st.gridRects[<<row, col>>]
               meta == st.gridMeta[<<row, col>>]
               marked ==
                 [called EXCEPT
                    !.activeSelected = (@ \ {st.activeRect}) \cup {rect},
                    !.activeRect = rect]
           IN  UpdateInfoArea(marked, p, meta.dateStr, meta.count)

SelectCell(st, p, row, col) ==
  LET called == [st EXCEPT !.calls = @ + 1]
  IN  IF ~Populated(st, row, col) THEN called
      ELSE LET rect == st.gridRects[<<row, col>>]
               meta == st.gridMeta[<<row, col>>]
               marked ==
                 [called EXCEPT
                    !.activeSelected = (@ \ {st.activeRect}) \cup {rect},
                    !.activeRect = rect,
                    !.currentPos = [row |-> row, col |-> col]]
           IN  UpdateInfoArea(marked, p, meta.dateStr, meta.count)

Max(a, b) == IF a > b THEN a ELSE b
Min(a, b) == IF a < b THEN a ELSE b

ArrowKeys == {"ArrowUp", "ArrowDown", "ArrowLeft", "ArrowRight"}
Keys == ArrowKeys \cup {"Enter"}

\* keydown events: any key with the focus on the page, and a key typed into
\* a text field
KeyEvents ==
  {[key |-> k, editable |-> FALSE] : k \in Keys}
    \cup {[key |-> "ArrowLeft", editable |-> TRUE]}

\* the position an arrow key asks for, clamped as the handler clamps it
KeyTarget(pos, key, totalWeeks) ==
  CASE key = "ArrowUp"    -> [row |-> Max(0, pos.row - 1), col |-> pos.col]
    [] key = "ArrowDown"  -> [row |-> Min(LastRow, pos.row + 1), col |-> pos.col]
    [] key = "ArrowLeft"  -> [row |-> pos.row, col |-> Max(0, pos.col - 1)]
    [] key = "ArrowRight" -> [row |-> pos.row, col |-> Min(totalWeeks - 1, pos.col + 1)]
    [] OTHER -> pos

\* the keydown closure created by render pass p, whose window is `days`
KeyHandler_NoFocusCheck(st, p, days, dow, key, editable) ==
  LET totalWeeks == TotalWeeks(days, StartDayOfWeek(days, dow))
      new == KeyTarget(st.currentPos, key, totalWeeks)
  IN  IF key \notin ArrowKeys THEN st
      ELSE IF new # st.currentPos THEN SelectCell(st, p, new.row, new.col)
      ELSE st

KeyHandler(st, p, days, dow, key, editable) ==
  LET totalWeeks == TotalWeeks(days, StartDayOfWeek(days, dow))
      new == KeyTarget(st.currentPos, key, totalWeeks)
  IN  IF editable \/ key \notin ArrowKeys THEN st
      ELSE IF new # st.currentPos THEN SelectCell(st, p, new.row, new.col)
      ELSE st

\* a keydown event on window runs every attached listener, oldest first
RECURSIVE Dispatch(_, _, _, _, _, _)
Dispatch(st, hs, dd, dow, key, editable) ==
  IF hs = <<>> THEN st
  ELSE Dispatch(KeyHandler(st, Head(hs), dd[Head(hs)], dow, key, editable),
                Tail(hs), dd, dow, key, editable)

\* -------------------------------------------------------------- rendering
\* the colour level of a cell: `let level = 0; if (count > 0) level = 1; ...`
Level_Inclusive(count) ==
  LET l1 == IF count >= 0 THEN 1 ELSE 0
      l2 == IF count >= 3 THEN 2 ELSE l1
      l3 == IF count >= 6 THEN 3 ELSE l2
  IN  IF count >= 10 THEN 4 ELSE l3

Level(count) ==
  LET l1 == IF count > 0 THEN 1 ELSE 0
      l2 == IF count > 3 THEN 2 ELSE l1
      l3 == IF count > 6 THEN 3 ELSE l2
  IN  IF count > 10 THEN 4 ELSE l3

\* one iteration of the cell loop of renderHeatmap
LoopBody(g, i, p, stats, days, s) ==
  LET row == Row(i, s)
      col == Col(i, s)
      dateStr == DateStr(i, days)
      count == IF dateStr \in DOMAIN stats THEN stats[dateStr] ELSE 0
      meta == [dateStr |-> dateStr, count |-> count]
  IN  [rects |-> Store(g.rects, <<row, col>>, Rect(p, row, col)),
       meta |-> Store(g.meta, <<row, col>>, meta),
       tips |-> Store(g.tips, <<row, col>>,
                      [dateStr |-> dateStr, count |-> count, level |-> Level(count)])]

RECURSIVE CellLoop(_, _, _, _, _, _)
CellLoop(g, i, p, stats, days, s) ==
  IF i >= days THEN g
  ELSE CellLoop(LoopBody(g, i, p, stats, days, s), i + 1, p, stats, days, s)

\* window.removeEventListener("keydown", this.keyHandler)
RemoveListener(hs, h) == SelectSeq(hs, LAMBDA x : x # h)

\* `if (this.keyHandler) window.removeEventListener(...)`
DetachOld_Keep(hs, old) == hs
DetachOld(hs, old) == IF old # 0 THEN RemoveListener(hs, old) ELSE hs

\* the position the default selection asks for
DefaultTarget(days, s) == [row |-> s, col |-> TotalWeeks(days, s) - 1]

\* renderHeatmap, start to end (it never awaits)
RenderHeatmap_KeepHandler(st, p, stats, days, dow) ==
  LET s == StartDayOfWeek(days, dow)
      g == CellLoop([rects |-> EmptyGrid, meta |-> EmptyGrid, tips |-> EmptyGrid],
                    0, p, stats, days, s)
      drawn ==
        [st EXCEPT
           !.gridRects = g.rects,
           !.gridMeta = g.meta,
           !.scrollArea[p] = [kind |-> "grid", msg |-> <<>>, tips |-> g.tips],
           !.listeners = IF st.keyHandler # 0 THEN @ ELSE Append(@, p),
           !.keyHandler = IF st.keyHandler # 0 THEN @ ELSE p]
      target == DefaultTarget(days, s)
  IN  SelectCell(drawn, IF st.keyHandler # 0 THEN st.keyHandler ELSE p,
                 target.row, target.col)

RenderHeatmap(st, p, stats, days, dow) ==
  LET s == StartDayOfWeek(days, dow)
      g == CellLoop([rects |-> EmptyGrid, meta |-> EmptyGrid, tips |-> EmptyGrid],
                    0, p, stats, days, s)
      drawn ==
        [st EXCEPT
           !.gridRects = g.rects,
           !.gridMeta = g.meta,
           !.scrollArea[p] = [kind |-> "grid", msg |-> <<>>, tips |-> g.tips],
           !.listeners = Append(DetachOld(@, st.keyHandler), p),
           !.keyHandler = p]
      target == DefaultTarget(days, s)
  IN  SelectCell(drawn, p, target.row, target.col)

\* ---------------------------------------------------------- configuration
DayKeys == { <<"d", "a", "y", "s">>, <<"d", "a", "y">> }

\* the loop over the lines of a code block: a line `days: n` or `day: n`
\* with n > 0 overrides the value so far
RECURSIVE ConfigDays(_, _)
ConfigDays(lines, soFar) ==
  IF lines = <<>> THEN soFar
  ELSE LET parts == Split(Head(lines), ":")
           parsed == ParseInt(Trim(parts[2]))
           next == IF /\ Len(parts) = 2
                      /\ ToLowerCase(Trim(parts[1])) \in DayKeys
                      /\ ~parsed.nan
                      /\ parsed.val > 0
                   THEN parsed.val ELSE soFar
       IN  ConfigDays(Tail(lines), next)

\* `parseInt(v) || 365` of the settings tab
SettingValue(v) ==
  LET parsed == ParseInt(v)
  IN  IF parsed.nan \/ parsed.val = 0 THEN DEFAULT_DAYS ELSE parsed.val

\* code blocks the user writes (source.split('\n'))
Sources ==
  { << <<>> >>,
    << <<"d", "a", "y", "s", ":", " ", "7">>, <<"D", "a", "y", ":", "3">> >>,
    << <<"d", "a", "y", "s", ":", "2", " ">> >>,
    << <<"D", "a", "y", ":", "3">>, <<"d", "a", "y", "s", ":", " ", "-", "2">> >>,
    << <<"d", "a", "y", "s", ":", " ", "x">>, <<"w", ":", "7">> >> }

\* texts the user types into the 'Default Days' field
SettingTexts ==
  { <<"-", "3">>, <<"0">>, <<"x">>, <<" ", "-", "3", "x">> }

\* ------------------------------------------------------------------ actions
\* the plugin object as constructed and loaded, before any code block is
\* processed
Constructed ==
  /\ settings = [defaultDays |-> DEFAULT_DAYS]
  /\ pc = [p \in Passes |-> "idle"]
  /\ displayDays = [p \in Passes |-> 0]
  /\ scrollArea = [p \in Passes |-> [kind |-> "none", msg |-> <<>>, tips |-> EmptyGrid]]
  /\ infoArea = [p \in Passes |-> NoPanel]
  /\ gridRects = EmptyGrid
  /\ gridMeta = EmptyGrid
  /\ currentPos = [row |-> 0, col |-> 0]
  /\ activeRect = NoRect
  /\ activeSelected = {}
  /\ keyHandler = 0
  /\ lastRender = 0
  /\ listeners = <<>>
  /\ lists = [id \in 1..MaxLists |-> NoList]
  /\ fetches = {}
  /\ loopDays = 0
  /\ loopI = 0

\* no function is being applied on its own
NoCall ==
  /\ arg = <<>>
  /\ result = <<>>
  /\ applied = FALSE

Init ==
  /\ todayDow \in 0..6
  /\ Constructed
  /\ NoCall

\* processHeatmap up to `await this.getGitLog(...)`: the wrapper is built,
\* displayDays is read from the block, and the log query is started, or the
\* missing vault path is reported at once.
ProcessHeatmap(p, source, hasBasePath) ==
  LET days == ConfigDays(source, settings.defaultDays)
  IN  /\ pc[p] = "idle"
      /\ \A q \in 1..(p - 1) : pc[q] # "idle"
      /\ days <= MaxDays
      /\ infoArea' = [infoArea EXCEPT ![p] = FreshPanel]
      /\ IF hasBasePath
         THEN /\ pc' = [pc EXCEPT ![p] = "awaitLog"]
              /\ displayDays' = [displayDays EXCEPT ![p] = days]
              /\ scrollArea' = [scrollArea EXCEPT ![p].kind = "empty"]
         ELSE /\ pc' = [pc EXCEPT ![p] = "failed"]
              /\ UNCHANGED displayDays
              /\ scrollArea' = [scrollArea EXCEPT ![p] =
                                  [kind |-> "error", msg |-> <<"no vault path">>,
                                   tips |-> EmptyGrid]]
      /\ UNCHANGED <<settings, todayDow, gridRects, gridMeta, currentPos,
                     activeRect, activeSelected, keyHandler, listeners, lists,
                     fetches, loopDays, loopI,
                 arg, result, applied, lastRender>>

\* the callback of getGitLog and the rest of processHeatmap: on rejection
\* the catch block writes the error notice, otherwise the log is parsed and
\* the heatmap rendered
GitLogDone(p, err, stdout) ==
  /\ pc[p] = "awaitLog"
  /\ IF GitLogRejects(err, stdout)
     THEN /\ pc' = [pc EXCEPT ![p] = "failed"]
          /\ displayDays' = [displayDays EXCEPT ![p] = 0]
          /\ scrollArea' = [scrollArea EXCEPT ![p] =
                              [kind |-> "error", msg |-> <<"No Git Log">>,
                               tips |-> EmptyGrid]]
          /\ UNCHANGED <<infoArea, gridRects, gridMeta, currentPos, activeRect,
                         activeSelected, keyHandler, listeners, lists, fetches,
                         lastRender>>
     ELSE LET st == RenderHeatmap(Cur, p, ParseGitLog(stdout), displayDays[p], todayDow)
          IN  /\ ~st.full
              /\ pc' = [pc EXCEPT ![p] = "rendered"]
              /\ lastRender' = p
              /\ Becomes(st)
              /\ UNCHANGED displayDays
  /\ UNCHANGED <<settings, todayDow, loopDays, loopI, arg, result, applied>>

\* a click on the rect that render pass p drew at (row, col)
Click(p, row, col) ==
  /\ scrollArea[p].kind = "grid"
  /\ <<row, col>> \in DOMAIN scrollArea[p].tips
  /\ LET st == SelectCell(Cur, p, row, col)
     IN  /\ ~st.full
         /\ Becomes(st)
  /\ UNCHANGED <<settings, todayDow, pc, displayDays, loopDays, loopI,
                 arg, result, applied, lastRender>>

\* a keydown event on window
KeyDown(key, editable) ==
  /\ listeners # <<>>
  /\ LET st == Dispatch(Cur, listeners, displayDays, todayDow, key, editable)
     IN  /\ ~st.full
         /\ Becomes(st)
  /\ UNCHANGED <<settings, todayDow, pc, displayDays, loopDays, loopI,
                 arg, result, applied, lastRender>>

\* the callback of one getCommitsForDate call
FetchDone(f, err, stdout) ==
  /\ f \in fetches
  /\ Becomes(ResolveDetails(Cur, f, err, stdout))
  /\ UNCHANGED <<settings, todayDow, pc, displayDays, loopDays, loopI,
                 arg, result, applied, lastRender>>

\* onChange of the 'Default Days' text field (followed while a code block
\* is still to be rendered: nothing else reads the setting)
SettingsChange(v) ==
  /\ \E p \in Passes : pc[p] = "idle"
  /\ settings' = [settings EXCEPT !.defaultDays = SettingValue(v)]
  /\ UNCHANGED <<todayDow, pc, displayDays, scrollArea, infoArea, gridRects,
                 gridMeta, currentPos, activeRect, activeSelected, keyHandler,
                 listeners, lists, fetches, loopDays, loopI,
                 arg, result, applied, lastRender>>

Next ==
  \/ \E p \in Passes, source \in Sources, hasBasePath \in BOOLEAN :
       ProcessHeatmap(p, source, hasBasePath)
  \/ \E p \in Passes, err \in BOOLEAN : \E stdout \in LogOutputs(displayDays[p], err) :
       GitLogDone(p, err, stdout)
  \/ \E p \in Passes : \E pos \in DOMAIN scrollArea[p].tips : Click(p, pos[1], pos[2])
  \/ \E ev \in KeyEvents : KeyDown(ev.key, ev.editable)
  \/ \E f \in fetches, err \in BOOLEAN : \E stdout \in DetailOutputs(f.date, err) :
       FetchDone(f, err, stdout)
  \/ \E v \in SettingTexts : SettingsChange(v)

Spec == Init /\ [][Next]_vars

\* ------------------------------------------------- the cell loop, stepped
\* LayoutSpec runs the cell loop of renderHeatmap one iteration at a time,
\* for every window up to MaxLayoutDays days, the default window and every
\* weekday, on the plugin's own grid cache.
LayoutDays == (1..MaxLayoutDays) \cup {DEFAULT_DAYS}

LayoutInit ==
  /\ settings = [defaultDays |-> DEFAULT_DAYS]
  /\ todayDow \in 0..6
  /\ pc = [p \in Passes |-> IF p = 1 THEN "awaitLog" ELSE "idle"]
  /\ loopDays \in LayoutDays
  /\ displayDays = [p \in Passes |-> IF p = 1 THEN loopDays ELSE 0]
  /\ scrollArea = [p \in Passes |->
                     [kind |-> IF p = 1 THEN "empty" ELSE "none", msg |-> <<>>,
                      tips |-> EmptyGrid]]
  /\ infoArea = [p \in Passes |-> IF p = 1 THEN FreshPanel ELSE NoPanel]
  /\ gridRects = EmptyGrid
  /\ gridMeta = EmptyGrid
  /\ currentPos = [row |-> 0, col |-> 0]
  /\ activeRect = NoRect
  /\ activeSelected = {}
  /\ keyHandler = 0
  /\ lastRender = 0
  /\ listeners = <<>>
  /\ lists = [id \in 1..MaxLists |-> NoList]
  /\ fetches = {}
  /\ loopI = 0
  /\ NoCall

LayoutStep ==
  /\ loopI < loopDays
  /\ LET g == LoopBody([rects |-> gridRects, meta |-> gridMeta,
                        tips |-> scrollArea[1].tips],
                       loopI, 1, <<>>, loopDays,
                       StartDayOfWeek(loopDays, todayDow))
     IN  /\ gridRects' = g.rects
         /\ gridMeta' = g.meta
         /\ scrollArea' = [scrollArea EXCEPT ![1].tips = g.tips]
  /\ loopI' = loopI + 1
  /\ UNCHANGED <<settings, todayDow, pc, displayDays, infoArea, currentPos,
                 activeRect, activeSelected, keyHandler, listeners, lists,
                 fetches, loopDays, arg, result, applied, lastRender>>

LayoutSpec == LayoutInit /\ [][LayoutStep]_vars

\* ------------------------------------------------ functions on their own
\* The specifications below apply one function of the program to an input
\* drawn from a bounded set; the plugin object is not touched.
plugin == <<settings, todayDow, pc, displayDays, scrollArea, infoArea, gridRects,
            gridMeta, currentPos, activeRect, activeSelected, keyHandler,
            listeners, lists, fetches, loopDays, loopI, lastRender>>

Drawn(inputs) ==
  /\ todayDow = 0
  /\ Constructed
  /\ arg \in inputs
  /\ result = <<>>
  /\ applied = FALSE

\* the level computation of the cell loop, for the count of one day
Counts == 0..MaxCount

LevelInit == Drawn(Counts)

ApplyLevel ==
  /\ ~applied
  /\ result' = Level(arg)
  /\ applied' = TRUE
  /\ UNCHANGED <<plugin, arg>>

LevelSpec == LevelInit /\ [][ApplyLevel]_vars

\* parseGitLog, for every listing of up to MaxLines lines: dates, a date
\* with white space around it, and blank lines
LogLines == { <<"0">>, <<"-1">>, <<" ", "0", " ">>, <<>>, <<" ">> }

Listings(n) == UNION {[1..k -> LogLines] : k \in 0..n}

AggregateInit == Drawn(Listings(MaxLines))

ApplyParseGitLog ==
  /\ ~applied
  /\ result' = ParseGitLog(arg)
  /\ applied' = TRUE
  /\ UNCHANGED <<plugin, arg>>

AggregateSpec == AggregateInit /\ [][ApplyParseGitLog]_vars

\* getCommitsForDate's callback, for every output of up to MaxDetail lines:
\* commit records, records cut short after two or three fields, records
\* whose subject contains the separator, and blank lines
LongLine(c) ==
  c.hash \o <<Separator>> \o c.msg \o <<Separator>> \o <<"more">>
         \o <<Separator>> \o c.author \o <<Separator>> \o IsoDate(c)

DetailLines ==
  {DetailLine(c) : c \in Repo} \cup {ShortLine(c) : c \in Repo}
    \cup {ShortLine(c) \o <<Separator>> \o c.author : c \in Repo}
    \cup {LongLine(c) : c \in Repo} \cup { <<>>, <<" ">> }

RawDetails(n) == UNION {[1..k -> DetailLines] : k \in 0..n}

DetailInit == Drawn([err : BOOLEAN, stdout : RawDetails(MaxDetail)])

ApplyGetCommitsForDate ==
  /\ ~applied
  /\ result' = GetCommitsForDate(arg.err, arg.stdout)
  /\ applied' = TRUE
  /\ UNCHANGED <<plugin, arg>>

DetailSpec == DetailInit /\ [][ApplyGetCommitsForDate]_vars

\* the config loop of processHeatmap, for every code block of up to MaxBlock
\* lines and two values of the setting
ConfigLines ==
  { <<"d", "a", "y", "s", ":", " ", "7">>,
    <<"D", "a", "y", ":", "3">>,
    <<"d", "a", "y", "s", ":", "2", " ">>,
    <<"d", "a", "y", "s", ":", " ", "-", "2">>,
    <<"d", "a", "y", "s", ":", " ", "x">>,
    <<"w", ":", "7">>,
    <<"d", "a", "y", "s", ":", " ", "3", "x">>,
    <<"d", "a", "y", "s", ":", " ", "0">>,
    <<"d", "a", "y", "s", ":", "1", ":", "2">>,
    <<" ", "D", "A", "Y", "S", " ", ":", " ", "5">>,
    <<>> }

Blocks(n) == UNION {[1..k -> ConfigLines] : k \in 0..n}

ConfigInit == Drawn([lines : Blocks(MaxBlock), defaultDays : {DEFAULT_DAYS, 1}])

ApplyConfigDays ==
  /\ ~applied
  /\ result' = ConfigDays(arg.lines, arg.defaultDays)
  /\ applied' = TRUE
  /\ UNCHANGED <<plugin, arg>>

ConfigSpec == ConfigInit /\ [][ApplyConfigDays]_vars

\* ------------------------------------------------------------------ claims
Rendered(p) == pc[p] = "rendered"

RowCol(pos) == <<pos.row, pos.col>>

\* the day of the repository's commit that a displayed entry stands for
EntryDays(item) == {DayText(c.day) : c \in {r \in Repo : Substring(r.hash, 7) = item.hash}}

\* C1: a detail panel whose header names a date shows, below it, only what
\* was requested for that date: its list is the element created for the
\* latest selection, it says "Loading..." exactly while that selection's
\* query is pending, and once the query has returned every entry in it is a
\* commit of the header's date; a response to an earlier selection of the
\* same panel never reaches it.
C1_PanelShowsLatestRequest ==
  \A p \in Passes :
    LET pan == infoArea[p]
    IN  /\ (pan.header /\ pan.count > 0) <=> pan.list # 0
        /\ pan.list # 0 =>
             LET l == lists[pan.list]
             IN  /\ l.container = p
                 /\ \A k \in 1..Len(l.items) : EntryDays(l.items[k]) = {pan.date}
                 /\ (l.text = <<"Loading...">>) <=> (\E f \in fetches : f.list = pan.list)
                 /\ l.text \in {<<"Loading...">>, <<>>}
                 /\ \A f \in fetches : f.list = pan.list => f.date = pan.date

\* C1 witness: a panel shows the commits of the date selected last while the
\* query of an earlier selection of another date in the same panel is
\* still on its way.
C1_Witness ==
  \E p \in Passes :
    /\ infoArea[p].list # 0
    /\ lists[infoArea[p].list].items # <<>>
    /\ \E f \in fetches :
         /\ lists[f.list].container = p
         /\ f.list # infoArea[p].list
         /\ f.date # infoArea[p].date

\* C2: a render pass with a positive window ends with the default selection
\* made: its target (startDayOfWeek, totalWeeks - 1) is a populated cell of
\* the new grid, and that cell is the active cell and currentPos.
C2_DefaultSelectionMade ==
  [][\A p \in Passes :
       (pc[p] = "awaitLog" /\ pc'[p] = "rendered" /\ displayDays[p] > 0) =>
         LET s == StartDayOfWeek(displayDays[p], todayDow)
             target == DefaultTarget(displayDays[p], s)
         IN  /\ RowCol(target) \in DOMAIN gridRects'
             /\ activeRect' = Rect(p, target.row, target.col)
             /\ currentPos' = target]_vars

\* C3: once a render pass (of a positive window) has succeeded, currentPos
\* always names a populated position of the current grid cache.
C3_CurrentPosPopulated ==
  ((\E p \in Passes : Rendered(p)) /\ (\A p \in Passes : Rendered(p) => displayDays[p] > 0))
    => (RowCol(currentPos) \in DOMAIN gridRects /\ RowCol(currentPos) \in DOMAIN gridMeta)

\* the totalWeeks the attached key handler clamps to
HandlerWeeks ==
  TotalWeeks(displayDays[keyHandler], StartDayOfWeek(displayDays[keyHandler], todayDow))

AfterKey(key) == Dispatch(Cur, listeners, displayDays, todayDow, key, FALSE)

\* C4: whichever arrow key is pressed while a handler is attached (and all
\* windows are positive), the selection after the press is a populated
\* cell, and a press whose clamped target is the current position or an
\* unpopulated position changes neither currentPos nor the active cell nor
\* the detail panels.
C4_ArrowPress ==
  (listeners # <<>> /\ \A p \in Passes : Rendered(p) => displayDays[p] > 0) =>
    \A key \in ArrowKeys :
      LET st == AfterKey(key)
          target == KeyTarget(currentPos, key, HandlerWeeks)
      IN  /\ Populated(st, st.currentPos.row, st.currentPos.col)
          /\ (target = currentPos \/ RowCol(target) \notin DOMAIN gridRects) =>
               /\ st.currentPos = currentPos
               /\ st.activeRect = activeRect
               /\ st.activeSelected = activeSelected
               /\ st.infoArea = infoArea
               /\ st.lists = lists
               /\ st.fetches = fetches

\* C5: with two instances rendered, a click on any drawn cell of either
\* makes that very cell the active one and writes that cell's own date and
\* count into the panel of the instance it belongs to.
C5_ClickSelectsOwnCell ==
  (\A p \in Passes : Rendered(p)) =>
    \A p \in Passes : \A pos \in DOMAIN scrollArea[p].tips :
      LET st == SelectCell(Cur, p, pos[1], pos[2])
      IN  ~st.full =>
            /\ st.activeRect = Rect(p, pos[1], pos[2])
            /\ st.activeSelected = {Rect(p, pos[1], pos[2])}
            /\ st.infoArea[p].header
            /\ st.infoArea[p].date = scrollArea[p].tips[pos].dateStr
            /\ st.infoArea[p].count = scrollArea[p].tips[pos].count

\* C6: at most one keydown handler of the plugin is attached to the window;
\* none before a render pass has succeeded and, from then on, exactly one,
\* the one this.keyHandler refers to; so no key press calls selectCell more
\* than once.
C6_OneKeyHandler ==
  /\ Len(listeners) <= 1
  /\ IF \E p \in Passes : Rendered(p)
     THEN keyHandler # 0 /\ listeners = <<keyHandler>>
     ELSE keyHandler = 0 /\ listeners = <<>>
  /\ \A ev \in KeyEvents :
       Dispatch(Cur, listeners, displayDays, todayDow, ev.key, ev.editable).calls <= 1

\* C6 witness: two render passes have succeeded, one handler is attached and
\* some arrow key makes exactly one selectCell call.
C6_Witness ==
  /\ Cardinality({p \in Passes : Rendered(p)}) >= 2
  /\ Len(listeners) = 1
  /\ \E key \in ArrowKeys : AfterKey(key).calls = 1

\* C7: after i iterations the cell loop has populated exactly i distinct
\* positions (so no two day offsets share a position, and the finished loop
\* has populated exactly displayDays of them), every row is in 0..6 and
\* every column in 0..totalWeeks-1, where totalWeeks is the least number of
\* whole weeks that covers displayDays + startDayOfWeek days.
C7_LayoutDistinctInRange ==
  LET s == StartDayOfWeek(loopDays, todayDow)
      tw == TotalWeeks(loopDays, s)
  IN  loopDays > 0 =>
        /\ Cardinality(DOMAIN gridRects) = loopI
        /\ DOMAIN gridMeta = DOMAIN gridRects
        /\ \A pos \in DOMAIN gridRects :
             pos[1] \in 0..LastRow /\ pos[2] \in 0..(tw - 1)
        /\ 7 * (tw - 1) < loopDays + s
        /\ loopDays + s <= 7 * tw

\* C7 witness: a finished loop over a window that begins and ends in the
\* middle of a week.
C7_Witness ==
  /\ loopDays > 7
  /\ loopI = loopDays
  /\ StartDayOfWeek(loopDays, todayDow) > 0
  /\ (loopDays + StartDayOfWeek(loopDays, todayDow)) % 7 # 0
  /\ Cardinality(DOMAIN gridRects) = loopDays

\* C8: if the detail query of the list a panel shows fails, that list ends
\* up holding the error text.
C8_FailedFetchShowsError ==
  \A f \in fetches :
    infoArea[lists[f.list].container].list = f.list =>
      \A stdout \in DetailOutputs(f.date, TRUE) :
        ResolveDetails(Cur, f, TRUE, stdout).lists[f.list].text
          = <<"Error loading details">>

\* C9: the log query of a render pass fails exactly when git reported an
\* error and printed nothing; the failing pass then shows the error notice
\* in place of its grid and leaves the grid cache, currentPos, the active
\* cell and the attached key handler as they were; in every other case the
\* pass renders.
C9_LogFailure ==
  [][\A p \in {q \in Passes : pc[q] = "awaitLog" /\ pc'[q] # "awaitLog"}, err \in BOOLEAN :
       \A stdout \in LogOutputs(displayDays[p], err) :
         GitLogDone(p, err, stdout) =>
           /\ (pc'[p] = "failed") <=> (err /\ stdout = <<>>)
           /\ (pc'[p] # "failed") => pc'[p] = "rendered" /\ scrollArea'[p].kind = "grid"
           /\ (pc'[p] = "failed") =>
                /\ scrollArea'[p].kind = "error"
                /\ scrollArea'[p].msg = <<"No Git Log">>
                /\ UNCHANGED <<gridRects, gridMeta, currentPos, activeRect,
                               activeSelected, keyHandler, listeners>>]_vars

\* C9 witness: one pass has shown the error notice while the grid, the
\* active cell and the key handler of another pass are in place, and that
\* other pass was rendered from partial output (the commit of yesterday is
\* missing from its counts).
C9_Witness ==
  \E p, q \in Passes :
    /\ pc[p] = "failed"
    /\ scrollArea[p].msg = <<"No Git Log">>
    /\ Rendered(q)
    /\ keyHandler = q
    /\ activeRect.pass = q
    /\ \E pos \in DOMAIN scrollArea[q].tips :
         /\ scrollArea[q].tips[pos].dateStr = DayText(-1)
         /\ scrollArea[q].tips[pos].count = 0

\* C10: settings.defaultDays is a positive integer, and so is the
\* displayDays of every render pass.
C10_DefaultDaysPositive ==
  /\ settings.defaultDays > 0
  /\ \A p \in Passes : pc[p] \in {"awaitLog", "rendered"} => displayDays[p] > 0

\* C11: at most one rect element, of all the grids drawn so far, carries the
\* class 'active-selected', and it is the one activeRect refers to; none
\* carries it before a render pass has succeeded and, once one has (all
\* windows being positive), exactly one does.
C11_OneActiveCell ==
  /\ Cardinality(activeSelected) <= 1
  /\ \A r \in activeSelected : r = activeRect /\ r # NoRect
  /\ (\A p \in Passes : ~Rendered(p)) => activeSelected = {}
  /\ ((\E p \in Passes : Rendered(p)) /\ (\A p \in Passes : Rendered(p) => displayDays[p] > 0))
       => Cardinality(activeSelected) = 1

\* C12: the level computed for a commit count n >= 0 is 0 for n = 0, 1 for
\* 1..3, 2 for 4..6, 3 for 7..10 and 4 from 11 on, and no smaller count gets
\* a higher level.
C12_LevelThresholds ==
  applied =>
    /\ result = (CASE arg = 0 -> 0
                  [] arg \in 1..3 -> 1
                  [] arg \in 4..6 -> 2
                  [] arg \in 7..10 -> 3
                  [] OTHER -> 4)
    /\ \A m \in 0..arg : Level(m) <= result

\* C12 witness: the level of the largest count below the last threshold
\* has been computed.
C12_Witness == applied /\ arg = 10 /\ result = 3

\* the lines of a listing in another order
Reordered(lines, perm) == [k \in 1..Len(lines) |-> lines[perm[k]]]

\* C13: the mapping parseGitLog computes from a listing has exactly the
\* dates of the non-blank lines as keys, each with the number of non-blank
\* lines that carry it, and the listing in any other order gives the same
\* mapping.
C13_CountsOrderFree ==
  applied =>
    /\ DOMAIN result = {Trim(arg[k]) : k \in {j \in 1..Len(arg) : Trim(arg[j]) # <<>>}}
    /\ \A d \in DOMAIN result :
         result[d] = Cardinality({k \in 1..Len(arg) : Trim(arg[k]) = d})
    /\ \A perm \in Permutations(1..Len(arg)) :
         ParseGitLog(Reordered(arg, perm)) = result

\* C13 witness: a listing of two dates, one of them on two lines that are
\* not adjacent, and a blank line, has been counted.
C13_Witness ==
  /\ applied
  /\ Len(arg) = MaxLines
  /\ Trim(arg[1]) = Trim(arg[3])
  /\ Trim(arg[1]) # Trim(arg[2])
  /\ \E k \in 1..Len(arg) : Trim(arg[k]) = <<>>
  /\ Cardinality(DOMAIN result) = 2
  /\ \E d \in DOMAIN result : result[d] = 2

\* the places of the separators in a line, the n-th of them, and the n-th
\* separator-delimited field
SepAt(l) == {i \in 1..Len(l) : l[i] = Separator}
NthSep(l, n) == CHOOSE i \in SepAt(l) : Cardinality({j \in SepAt(l) : j < i}) = n - 1
Field(l, n) ==
  SubSeq(l, IF n = 1 THEN 1 ELSE NthSep(l, n - 1) + 1,
            IF Cardinality(SepAt(l)) >= n THEN NthSep(l, n) - 1 ELSE Len(l))
WellFormed(l) == Trim(l) # <<>> /\ Cardinality(SepAt(l)) + 1 >= 4

\* C14: the commits parsed from a detail output (git having reported no
\* error) are the non-blank lines of at least 4 fields, in their order, each
\* as (hash, message, author, date) taken from its first four fields; the
\* other lines are dropped.
C14_DetailParsing ==
  (applied /\ ~arg.err) =>
    LET kept == SelectSeq(arg.stdout, WellFormed)
    IN  result = [k \in 1..Len(kept) |->
                    [hash |-> Field(kept[k], 1), message |-> Field(kept[k], 2),
                     author |-> Field(kept[k], 3), date |-> Field(kept[k], 4)]]

\* C14 witness: an output holding a record cut short, a record of five
\* fields and a record of four has been parsed into two commits.
C14_Witness ==
  /\ applied
  /\ ~arg.err
  /\ Len(arg.stdout) = MaxDetail
  /\ \E k \in 1..Len(arg.stdout) :
       Trim(arg.stdout[k]) # <<>> /\ Cardinality(SepAt(arg.stdout[k])) < 3
  /\ \E k \in 1..Len(arg.stdout) : Cardinality(SepAt(arg.stdout[k])) > 3
  /\ \E k \in 1..Len(arg.stdout) : Cardinality(SepAt(arg.stdout[k])) = 3
  /\ Len(result) = 2

\* a text that is a positive integer: decimal digits only, not all zero
PositiveInteger(v) ==
  /\ v # <<>>
  /\ \A k \in 1..Len(v) : v[k] \in Digits
  /\ \E k \in 1..Len(v) : v[k] # "0"

\* a line of the form `days: n` or `day: n`, n a positive integer
DaysLine(l) ==
  /\ Cardinality({i \in 1..Len(l) : l[i] = ":"}) = 1
  /\ ToLowerCase(Trim(Split(l, ":")[1])) \in DayKeys
  /\ PositiveInteger(Trim(Split(l, ":")[2]))

\* C15: the displayDays read from a code block is the n of its last line
\* of the form `days: n` or `day: n` with n a positive integer, and the
\* setting's value when it has no such line; no other line changes it.
C15_LastDaysLineWins ==
  applied =>
    LET good == {k \in 1..Len(arg.lines) : DaysLine(arg.lines[k])}
        last == CHOOSE k \in good : \A j \in good : j <= k
    IN  result = IF good = {} THEN arg.defaultDays
                 ELSE ParseInt(Trim(Split(arg.lines[last], ":")[2])).val

\* the selections an event can make in the current state: a click on a
\* drawn rect whose position the grid cache holds, and an arrow key that
\* the attached handler turns into a move to a populated position
Selections ==
  {[pass |-> p, pos |-> pos] :
     p \in {q \in Passes : scrollArea[q].kind = "grid"},
     pos \in DOMAIN gridRects \cap DOMAIN gridMeta}
  \cap
  (UNION {{[pass |-> p, pos |-> pos] : pos \in DOMAIN scrollArea[p].tips} : p \in Passes}
     \cup {[pass |-> keyHandler, pos |-> RowCol(KeyTarget(currentPos, key, HandlerWeeks))] :
             key \in {k \in ArrowKeys : keyHandler # 0
                                         /\ KeyTarget(currentPos, k, HandlerWeeks) # currentPos}})

\* C16: a selection writes the selected cell's date and count into the
\* header of the panel; for a count of zero it starts no detail query and
\* shows no list, and for a count above zero it starts exactly one new
\* query, for that cell's date and a new list element, whatever queries
\* were started before.
C16_FetchPerSelection ==
  \A sel \in Selections :
    LET st == SelectCell(Cur, sel.pass, sel.pos[1], sel.pos[2])
        meta == gridMeta[sel.pos]
        pan == st.infoArea[sel.pass]
    IN  ~st.full =>
          /\ pan.header /\ pan.date = meta.dateStr /\ pan.count = meta.count
          /\ IF meta.count = 0
             THEN st.fetches = fetches /\ pan.list = 0
             ELSE /\ Cardinality(st.fetches \ fetches) = 1
                  /\ fetches \subseteq st.fetches
                  /\ \A f \in st.fetches \ fetches :
                       /\ f.date = meta.dateStr
                       /\ f.list = pan.list
                       /\ \A g \in fetches : g.list # f.list
                       /\ st.lists[f.list].text = <<"Loading...">>

\* C16 witness: a panel shows a day without commits and no list, and two
\* queries for one and the same date are on their way, one per selection of
\* that date.
C16_Witness ==
  /\ \E p \in Passes :
       infoArea[p].header /\ infoArea[p].count = 0 /\ infoArea[p].list = 0
  /\ \E f, g \in fetches : f # g /\ f.date = g.date

\* C17: a key pressed while the focus is in an input, a textarea or a
\* content-editable element, and a key that is not an arrow key, calls
\* selectCell not at all: currentPos, the active cell, the detail panels,
\* their lists and the pending detail queries stay as they are.
C17_IgnoredKeys ==
  \A key \in Keys, editable \in BOOLEAN :
    (editable \/ key \notin ArrowKeys) =>
      LET st == Dispatch(Cur, listeners, displayDays, todayDow, key, editable)
      IN  /\ st.calls = 0
          /\ st.currentPos = currentPos
          /\ st.activeRect = activeRect
          /\ st.activeSelected = activeSelected
          /\ st.infoArea = infoArea
          /\ st.lists = lists
          /\ st.fetches = fetches

\* C17 witness: a handler is attached and an arrow key, pressed with the
\* focus on the page, would move the selection and start a detail query.
C17_Witness ==
  /\ listeners # <<>>
  /\ \E key \in ArrowKeys :
       /\ AfterKey(key).currentPos # currentPos
       /\ AfterKey(key).fetches # fetches

\* C18, as stated: an arrow key whose clamped target is another position
\* that holds no populated cell leaves currentPos on that position while
\* the highlight stays on the cell it was on.
C18_PressDrifts ==
  listeners # <<>> =>
    \A key \in ArrowKeys :
      LET st == AfterKey(key)
          target == KeyTarget(currentPos, key, HandlerWeeks)
      IN  (target # currentPos /\ ~Populated(Cur, target.row, target.col)) =>
            /\ st.currentPos = target
            /\ st.activeRect = activeRect

\* C18, amended: no arrow key moves currentPos to a position without a
\* populated cell.  A press whose clamped target holds no populated cell
\* changes neither currentPos nor the highlight, and a press that changes
\* currentPos lands on a populated cell, which is then the one highlighted
\* cell.
C18_PressKeepsAgreement ==
  listeners # <<>> =>
    \A key \in ArrowKeys :
      LET st == AfterKey(key)
          target == KeyTarget(currentPos, key, HandlerWeeks)
      IN  /\ (target # currentPos /\ ~Populated(Cur, target.row, target.col)) =>
               /\ st.currentPos = currentPos
               /\ st.activeRect = activeRect
               /\ st.activeSelected = activeSelected
          /\ st.currentPos # currentPos =>
               /\ Populated(st, st.currentPos.row, st.currentPos.col)
               /\ st.activeRect = st.gridRects[RowCol(st.currentPos)]
               /\ st.activeSelected = {st.activeRect}

\* C18 witness: the highlighted cell is the one at currentPos, in a column
\* after the first, and the position to its left holds no cell, so that
\* ArrowLeft asks for a position before the window start.
C18_Witness ==
  /\ listeners # <<>>
  /\ RowCol(currentPos) \in DOMAIN gridRects
  /\ activeRect = gridRects[RowCol(currentPos)]
  /\ currentPos.col >= 1
  /\ KeyTarget(currentPos, "ArrowLeft", HandlerWeeks) # currentPos
  /\ RowCol(KeyTarget(currentPos, "ArrowLeft", HandlerWeeks)) \notin DOMAIN gridRects

\* the attached handler and the grid cache come from one render pass: every
\* cached rect was drawn by the pass whose closure the handler is, the
\* cache holds exactly the cells that pass drew, no cell lies beyond the
\* column the handler clamps to and, the window being positive, that last
\* column holds a cell; a key press writes to no panel but that pass's
HandlerOfGrid ==
  keyHandler # 0 =>
    /\ listeners = <<keyHandler>>
    /\ \A pos \in DOMAIN gridRects : gridRects[pos].pass = keyHandler
    /\ DOMAIN gridRects = DOMAIN scrollArea[keyHandler].tips
    /\ DOMAIN gridMeta = DOMAIN gridRects
    /\ \A pos \in DOMAIN gridRects : pos[2] <= HandlerWeeks - 1
    /\ displayDays[keyHandler] > 0 =>
         \E pos \in DOMAIN gridRects : pos[2] = HandlerWeeks - 1
    /\ \A key \in ArrowKeys, q \in Passes \ {keyHandler} :
         AfterKey(key).infoArea[q] = infoArea[q]

\* C19: however the render passes overlap, the attached keydown handler and
\* the grid cache are in every state those of one and the same pass, the
\* one whose log query completed last with a render (whether or not it was
\* started last); before any render there is neither.
C19_HandlerMatchesGrid ==
  /\ HandlerOfGrid
  /\ keyHandler = lastRender
  /\ lastRender = 0 => gridRects = EmptyGrid /\ gridMeta = EmptyGrid /\ listeners = <<>>

\* C19 witness: both passes have rendered, with different windows, and the
\* handler and the grid are those of the pass that was started first: its
\* log query completed last.
C19_Witness ==
  /\ Rendered(1) /\ Rendered(2)
  /\ lastRender = 1
  /\ keyHandler = 1
  /\ displayDays[1] # displayDays[2]
  /\ displayDays[1] > 0 /\ displayDays[2] > 0
  /\ gridRects # EmptyGrid
  /\ \A pos \in DOMAIN gridRects : gridRects[pos].pass = 1
  /\ DOMAIN scrollArea[2].tips # DOMAIN gridRects

====
